---- MODULE Spec2Model ----
\* Sentinel-1 SLC -> STAC: create_collection and create_item of
\* stactools.sentinel1.slc.stac, with the module-level objects of
\* stactools.sentinel1.slc.constants as the only state that outlives a call.
EXTENDS Integers, Sequences, FiniteSets, TLC

VARIABLES c, calls, collection

vars == <<c, calls, collection>>

\* ---------------------------------------------------------------- bounds
\* number of create_item calls recorded in one behaviour
MaxCalls == 2
\* longest product_metadata.image_paths list
MaxImages == 2

\* ------------------------------------------------------- Python values
\* None for the values the model keeps as strings
None == "None"
\* Optional structured values: <<>> is None, <<v>> is the value v
NoneT == <<>>
Some(v) == <<v>>
IsNone(o) == o = <<>>
Val(o) == o[1]

\* pystac.MediaType
GEOTIFF == "image/tiff; application=geotiff"
COG == "image/tiff; application=geotiff; profile=cloud-optimized"
XML == "application/xml"
PNG == "image/png"

\* formats.Format
Format == {"SAFE", "COG"}

\* ------------------------------------------- slc/constants.py objects
Link(rel, target, title) ==
    [rel |-> rel, target |-> target, title |-> title, owner |-> NoneT]

SENTINEL_SLC_EXTENT ==
    [spatial |-> <<"-180.0", "-90.0", "180.0", "90.0">>,
     temporal |-> <<"2014-10-10T00:00:00Z", None>>]

SENTINEL_SLC_TECHNICAL_GUIDE ==
    Link("about",
         "https://sentinels.copernicus.eu/web/sentinel/technical-guides/sentinel-1-sar/products-algorithms/level-1-algorithms/single-look-complex",
         "Sentinel-1 Single Look Complex (SLC) Technical Guide")

SENTINEL_SLC_LICENSE ==
    Link("license",
         "https://scihub.copernicus.eu/twiki/do/view/SciHubWebPortal/TermsConditions",
         "Sentinel License")

SENTINEL_SLC_KEYWORDS == <<"ground", "sentinel", "copernicus", "esa", "sar">>

SENTINEL_SLC_SAT == [orbit_state |-> <<"ascending", "descending">>]

SENTINEL_SLC_SAR ==
    [looks_range |-> <<"1">>,
     product_type |-> <<"SLC">>,
     looks_azimuth |-> <<"1">>,
     polarizations |-> <<"HH", "VV", "HV", "VH", "HH+HV", "VV+VH">>,
     frequency_band |-> <<"C">>,
     instrument_mode |-> <<"IW", "EW", "SM", "WV">>,
     center_frequency |-> <<"5.405">>,
     resolution_range |-> <<"1.7", "2.0", "2.5", "2.7", "3.1", "3.3", "3.6",
                            "3.5", "7.9", "9.9", "11.6", "13.3", "14.4">>,
     resolution_azimuth |-> <<"3.9", "4.9", "22.5", "22.6", "22.7", "43.7",
                              "44.3", "45.2", "45.6", "44.0">>,
     pixel_spacing_range |-> <<"1.5", "1.8", "2.2", "2.3", "2.6", "2.9",
                               "3.1", "5.9">>,
     pixel_spacing_azimuth |-> <<"3.5", "3.6", "4.1", "4.2", "14.1", "19.9">>,
     observation_direction |-> <<"right">>,
     looks_equivalent_number |-> <<"1">>]

AssetDefinition(title, type, roles) ==
    [title |-> title, type |-> type, roles |-> roles]

\* the keys of SENTINEL_SLC_ASSETS, in declaration order
SLC_ASSET_KEYS ==
    <<"vh", "hh", "hv", "vv",
      "schema-calibration-hh", "schema-calibration-hv",
      "schema-calibration-vh", "schema-calibration-vv",
      "schema-noise-hh", "schema-noise-hv", "schema-noise-vh", "schema-noise-vv",
      "schema-product-hh", "schema-product-hv",
      "schema-product-vh", "schema-product-vv",
      "safe-manifest", "thumbnail">>

SENTINEL_SLC_ASSETS ==
    [k \in {SLC_ASSET_KEYS[i] : i \in DOMAIN SLC_ASSET_KEYS} |->
        CASE k = "vh" -> AssetDefinition("VH Data", COG, <<"data">>)
          [] k = "hh" -> AssetDefinition("HH Data", COG, <<"data">>)
          [] k = "hv" -> AssetDefinition("HV Data", COG, <<"data">>)
          [] k = "vv" -> AssetDefinition("VV Data", COG, <<"data">>)
          [] k = "schema-calibration-hh" -> AssetDefinition("HH Calibration Schema", XML, <<"metadata">>)
          [] k = "schema-calibration-hv" -> AssetDefinition("HV Calibration Schema", XML, <<"metadata">>)
          [] k = "schema-calibration-vh" -> AssetDefinition("VH Calibration Schema", XML, <<"metadata">>)
          [] k = "schema-calibration-vv" -> AssetDefinition("VV Calibration Schema", XML, <<"metadata">>)
          [] k = "schema-noise-hh" -> AssetDefinition("HH Noise Schema", XML, <<"metadata">>)
          [] k = "schema-noise-hv" -> AssetDefinition("HV Noise Schema", XML, <<"metadata">>)
          [] k = "schema-noise-vh" -> AssetDefinition("VH Noise Schema", XML, <<"metadata">>)
          [] k = "schema-noise-vv" -> AssetDefinition("VV Noise Schema", XML, <<"metadata">>)
          [] k = "schema-product-hh" -> AssetDefinition("HH Product Schema", XML, <<"metadata">>)
          [] k = "schema-product-hv" -> AssetDefinition("HV Product Schema", XML, <<"metadata">>)
          [] k = "schema-product-vh" -> AssetDefinition("VH Product Schema", XML, <<"metadata">>)
          [] k = "schema-product-vv" -> AssetDefinition("VV Product Schema", XML, <<"metadata">>)
          [] k = "safe-manifest" -> AssetDefinition("Manifest File", XML, <<"metadata">>)
          [] k = "thumbnail" -> AssetDefinition("Preview Image", PNG, <<"thumbnail">>)]

\* ..constants (imported with *): provider, constellation, platforms
SENTINEL_PROVIDER ==
    [name |-> "ESA", roles |-> <<"producer", "processor", "licensor">>,
     url |-> "https://earth.esa.int/eogateway"]
SENTINEL_CONSTELLATION == "sentinel-1"
SENTINEL_PLATFORMS == <<"sentinel-1a", "sentinel-1b">>

\* the module-level objects as the heap both functions read
Constants ==
    [SENTINEL_SLC_LICENSE |-> SENTINEL_SLC_LICENSE,
     SENTINEL_SLC_TECHNICAL_GUIDE |-> SENTINEL_SLC_TECHNICAL_GUIDE,
     SENTINEL_SLC_EXTENT |-> SENTINEL_SLC_EXTENT,
     SENTINEL_SLC_SAR |-> SENTINEL_SLC_SAR,
     SENTINEL_SLC_SAT |-> SENTINEL_SLC_SAT,
     SENTINEL_SLC_ASSETS |-> SENTINEL_SLC_ASSETS,
     SENTINEL_PROVIDER |-> SENTINEL_PROVIDER]

\* ------------------------------------------------ library behaviour
\* str.lower() / str.upper() on the strings the model uses
Lower(s) ==
    CASE s = "SENTINEL-1A" -> "sentinel-1a"
      [] s = "SENTINEL-1B" -> "sentinel-1b"
      [] OTHER -> s
Upper(s) ==
    CASE s = "iw1" -> "IW1"
      [] s = "iw2" -> "IW2"
      [] s = "vv" -> "VV"
      [] s = "vh" -> "VH"
      [] OTHER -> s

\* seq[:-5]
PySliceMut(s) == IF Len(s) <= 4 THEN <<>> ELSE SubSeq(s, 1, Len(s) - 4)
PySlice(s) == IF Len(s) <= 5 THEN <<>> ELSE SubSeq(s, 1, Len(s) - 5)

\* list.append(link): the link object itself is not touched.  (Item.add_link
\* would also set link.owner to the object the list belongs to.)
add_link(heap, owner, links, name) ==
    [heap |-> [heap EXCEPT ![name].owner = Some(owner)],
     links |-> Append(links, name)]
links_append(heap, owner, links, name) ==
    [heap |-> heap, links |-> Append(links, name)]

\* the links of an object as they read when it is returned
LinksView(heap, links) == [i \in DOMAIN links |-> heap[links[i]]]

\* dict assignment d[key] = value on an insertion-ordered dict
RECURSIVE DictSet(_, _, _)
DictSet(d, key, value) ==
    IF d = <<>> THEN <<[key |-> key, asset |-> value]>>
    ELSE IF d[1].key = key
         THEN <<[key |-> key, asset |-> value]>> \o Tail(d)
         ELSE <<d[1]>> \o DictSet(Tail(d), key, value)

Keys(d) == {d[i].key : i \in DOMAIN d}

\* dict([(k1, v1), (k2, v2), ...])
RECURSIVE PyDict(_, _)
PyDict(pairs, acc) ==
    IF pairs = <<>> THEN acc
    ELSE PyDict(Tail(pairs), DictSet(acc, pairs[1][1], pairs[1][2]))

\* pystac.Item.add_asset(key, asset)
add_asset(assets, key, asset) == DictSet(assets, key, asset)

RECURSIVE add_assets(_, _)
add_assets(assets, pairs) ==
    IF pairs = <<>> THEN assets
    ELSE add_assets(add_asset(assets, pairs[1][1], pairs[1][2]), Tail(pairs))

Asset(href, media_type, roles, title) ==
    [href |-> href, media_type |-> media_type, roles |-> roles,
     title |-> title, sar |-> <<>>]

\* a path inside the granule: its directory kind and, for the per-band
\* files, the swath and polarisation its name carries
File(kind, swath, pol) == [kind |-> kind, swath |-> swath, pol |-> pol]

\* os.path.join(granule_href, relative path)
os_path_join(dir, file) == [dir |-> dir, file |-> file]

\* ------------------------------------------ SLCMetadataLinks (metalinks)
\* create_manifest_asset(): the manifest.safe of the granule
create_manifest_asset(granule_href) ==
    <<"safe-manifest",
      Asset(os_path_join(granule_href, File("manifest", "", "")), XML,
            <<"metadata">>, "Manifest File")>>

\* create_product_asset / create_calibration_asset / create_noise_asset:
\* one XML annotation asset per measurement, keyed as the Collection's
\* item_assets declare them ("schema-<kind>-<polarisation>")
RECURSIVE create_annotation_assets(_, _, _)
create_annotation_assets(kind, granule_href, image_paths) ==
    IF image_paths = <<>> THEN <<>>
    ELSE <<<<"schema-" \o kind \o "-" \o image_paths[1].pol,
             Asset(os_path_join(granule_href,
                                File(kind, image_paths[1].swath,
                                     image_paths[1].pol)),
                   XML, <<"metadata">>, kind)>>>>
         \o create_annotation_assets(kind, granule_href, Tail(image_paths))

\* extract_properties(href, ["polarisation", "swath"])
extract_properties(href) == <<href.file.pol, href.file.swath>>

\* ------------------------------------------------------------ bands.py
\* image_asset_from_href(href, item, media_type=..., slc_swaths=True):
\* (key, asset) of one measurement, one per swath and polarisation
image_asset_from_href(href, media_type) ==
    <<href.file.swath \o "-" \o href.file.pol,
      Asset(href, media_type, <<"data">>, Upper(href.file.pol))>>

\* fill_swath_sar_properties(asset_sar, SWATH, POLARISATION)
fill_swath_sar_properties(asset, swath, polarisation) ==
    [asset EXCEPT !.sar = <<swath, polarisation>>]

\* ------------------------------------------------- create_item, by step
\* item_id = scene_id[:-5]; a scene id of None is not subscriptable
item_id(scene_id) ==
    IF IsNone(scene_id) THEN [err |-> "TypeError", v |-> <<>>]
    ELSE [err |-> "", v |-> PySlice(Val(scene_id))]

\* pystac.Item(id, geometry, bbox, datetime, properties={}): with no
\* datetime it needs start_datetime and end_datetime in the properties
ItemCtor(datetime) == IF datetime = None THEN "STACError" ELSE ""

\* transform_from_bbox(projection.bbox, shape)
transform_from_bbox(bbox, shape) ==
    IF bbox = None \/ shape = None THEN [err |-> "TypeError", v |-> <<>>]
    ELSE [err |-> "", v |-> <<"transform", bbox, shape>>]

\* shapely.geometry.shape(item.geometry).centroid, rounded to 5 places
centroid_unchecked(geometry) == [err |-> "", v |-> <<"centroid", geometry>>]
centroid(geometry) ==
    IF geometry = None THEN [err |-> "AttributeError", v |-> <<>>]
    ELSE [err |-> "", v |-> <<"centroid", geometry>>]

\* images_media_type from archive_format
images_media_type_swapped(archive_format) ==
    IF archive_format = "SAFE" THEN COG
    ELSE IF archive_format = "COG" THEN GEOTIFF
    ELSE None
images_media_type(archive_format) ==
    IF archive_format = "SAFE" THEN GEOTIFF
    ELSE IF archive_format = "COG" THEN COG
    ELSE None

\* image_assets = dict([image_asset_from_href(join(granule, p), ...) for p in image_paths])
image_pairs(granule_href, image_paths, media_type) ==
    [i \in DOMAIN image_paths |->
        image_asset_from_href(os_path_join(granule_href, image_paths[i]),
                              media_type)]
image_assets_skip_first(granule_href, image_paths, media_type) ==
    PyDict(image_pairs(granule_href,
                       SubSeq(image_paths, 2, Len(image_paths)), media_type),
           <<>>)
image_assets(granule_href, image_paths, media_type) ==
    PyDict(image_pairs(granule_href, image_paths, media_type), <<>>)

\* key = f"{swath}-{polarisation}"
image_key_pol_only(polarisation, swath) == polarisation
image_key(polarisation, swath) == swath \o "-" \o polarisation

\* for asset in image_assets.values(): assert key not in item.assets; add
RECURSIVE add_image_assets(_, _)
add_image_assets(assets, values) ==
    IF values = <<>> THEN [err |-> "", v |-> assets]
    ELSE LET asset == values[1].asset
             ps == extract_properties(asset.href)
             key == image_key(ps[1], ps[2])
         IN IF key \in Keys(assets)
            THEN [err |-> "AssertionError", v |-> assets]
            ELSE add_image_assets(
                     add_asset(assets, key,
                               fill_swath_sar_properties(asset, Upper(ps[2]),
                                                         Upper(ps[1]))),
                     Tail(values))

\* the thumbnail asset
thumbnail_asset(thumbnail_href) ==
    Asset(thumbnail_href, PNG, <<"thumbnail">>, "Preview Image")

\* the assets added before the images: manifest, annotations, thumbnail
metadata_assets(args) ==
    LET a1 == add_assets(<<>>, <<create_manifest_asset(args.granule_href)>>)
        a2 == add_assets(a1, create_annotation_assets("product",
                                 args.granule_href, args.image_paths))
        a3 == add_assets(a2, create_annotation_assets("calibration",
                                 args.granule_href, args.image_paths))
        a4 == add_assets(a3, create_annotation_assets("noise",
                                 args.granule_href, args.image_paths))
    IN IF IsNone(args.thumbnail_href) THEN a4
       ELSE add_asset(a4, "thumbnail", thumbnail_asset(Val(args.thumbnail_href)))

\* the properties of the Item once every extension is filled
properties(args, heap, transform, cen) ==
    [sar |-> args.manifest.sar,
     sat |-> args.manifest.sat,
     processing |-> args.manifest.processing,
     proj_epsg |-> 4326,
     proj_bbox |-> args.bbox,
     proj_shape |-> args.shape,
     proj_transform |-> transform,
     proj_centroid |-> cen,
     providers |-> <<heap.SENTINEL_PROVIDER>>,
     platform |-> IF args.platform # None /\ args.platform # ""
                  THEN Lower(args.platform) ELSE args.platform,
     constellation |-> SENTINEL_CONSTELLATION,
     s1 |-> args.metadata_dict,
     s1_product_identifier |-> args.scene_id,
     s1_processing_datetime |->
         IF args.manifest.stop # None /\ args.manifest.stop # ""
         THEN args.manifest.stop \o "Z" ELSE None]

STAC_EXTENSIONS == <<"sar", "sat", "eo", "processing", "projection">>

Raise(err, heap) == [status |-> err, item |-> NoneT, heap |-> heap]

\* create_item(granule_href, read_href_modifier, archive_format): the
\* returned Item or the exception raised, with the heap the call leaves
create_item(args, heap, obj) ==
    LET id == item_id(args.scene_id)
        ctor == ItemCtor(args.datetime)
        tr == transform_from_bbox(args.bbox, args.shape)
        cen == centroid(args.geometry)
        media == images_media_type(args.archive_format)
        imgs == add_image_assets(
                    metadata_assets(args),
                    image_assets(args.granule_href, args.image_paths, media))
        l1 == links_append(heap, obj, <<>>, "SENTINEL_SLC_LICENSE")
        l2 == links_append(l1.heap, obj, l1.links, "SENTINEL_SLC_TECHNICAL_GUIDE")
    IN IF id.err # "" THEN Raise(id.err, heap)
       ELSE IF ctor # "" THEN Raise(ctor, heap)
       ELSE IF tr.err # "" THEN Raise(tr.err, heap)
       ELSE IF cen.err # "" THEN Raise(cen.err, heap)
       ELSE IF imgs.err # "" THEN Raise(imgs.err, heap)
       ELSE [status |-> "ok",
             item |-> Some([id |-> id.v,
                            geometry |-> args.geometry,
                            bbox |-> args.bbox,
                            datetime |-> args.datetime,
                            properties |-> properties(args, heap, tr.v, cen.v),
                            stac_extensions |-> STAC_EXTENSIONS,
                            assets |-> imgs.v,
                            links |-> LinksView(l2.heap, l2.links)]),
             heap |-> l2.heap]

\* create_collection(json_path): the returned Collection and the heap
create_collection(json_path, heap, obj) ==
    LET l1 == links_append(heap, obj, <<>>, "SENTINEL_SLC_LICENSE")
        l2 == links_append(l1.heap, obj, l1.links, "SENTINEL_SLC_TECHNICAL_GUIDE")
    IN [collection |->
           [id |-> "sentinel1-slc",
            title |-> "Sentinel-1 SLC",
            href |-> json_path,
            extent |-> heap.SENTINEL_SLC_EXTENT,
            keywords |-> SENTINEL_SLC_KEYWORDS,
            providers |-> <<heap.SENTINEL_PROVIDER>>,
            summaries |-> [constellation |-> <<SENTINEL_CONSTELLATION>>,
                           platform |-> SENTINEL_PLATFORMS,
                           sar |-> heap.SENTINEL_SLC_SAR,
                           sat |-> heap.SENTINEL_SLC_SAT],
            item_assets |-> heap.SENTINEL_SLC_ASSETS,
            links |-> LinksView(l2.heap, l2.links)],
        heap |-> l2.heap]

\* ------------------------------------------------------------ inputs
Measurement(swath, pol) == File("measurement", swath, pol)

\* the measurement files a product can hold, in manifest order
MEASUREMENTS ==
    <<Measurement("iw1", "vh"), Measurement("iw1", "vv"),
      Measurement("iw2", "vv")>>

\* the image path lists: at most MaxImages measurements, one per swath and
\* polarisation, listed in manifest order
RECURSIVE Ascending(_, _)
Ascending(lo, n) ==
    IF n = 0 THEN {<<>>}
    ELSE {<<i>> \o t : i \in lo..Len(MEASUREMENTS),
                       t \in Ascending(lo + 1, n - 1)}

IsAscending(t) == \A k \in 1..(Len(t) - 1) : t[k] < t[k + 1]

ImagePathLists ==
    {[k \in DOMAIN t |-> MEASUREMENTS[t[k]]] :
        t \in {u \in UNION {Ascending(1, n) : n \in 0..MaxImages} :
                  IsAscending(u)}}

\* scene ids: a mission prefix and a 5-character unique-id segment, and
\* ids too short to hold the segment
SceneIds ==
    {<<"S", "1", "_", "A", "B", "B", "B">>,
     <<"S", "1", "_", "9", "C", "D", "E">>,
     <<"S", "2", "_", "A", "B", "B", "B">>,
     <<"S", "_", "A", "B", "B", "B">>,
     <<"_", "A", "B", "B", "B">>,
     <<"S", "1", "_">>}

BaseArgs ==
    [granule_href |-> "S1A_IW_SLC.SAFE",
     read_href_modifier |-> None,
     archive_format |-> "SAFE",
     scene_id |-> Some(<<"S", "1", "_", "A", "B", "B", "B">>),
     geometry |-> "polygon",
     bbox |-> "bbox",
     datetime |-> "2015-03-05T05:19:37Z",
     shape |-> "shape",
     platform |-> "SENTINEL-1A",
     metadata_dict |-> "s1",
     image_paths |-> <<Measurement("iw1", "vh"), Measurement("iw1", "vv")>>,
     thumbnail_href |-> Some(os_path_join("S1A_IW_SLC.SAFE",
                                          File("preview", "", ""))),
     manifest |-> [sar |-> "sar", sat |-> "sat", processing |-> "processing",
                   stop |-> "2015-03-05T07:01:34"]]

\* products that differ in the scene id
SceneArgs == {[BaseArgs EXCEPT !.scene_id = Some(s)] : s \in SceneIds}

\* products one required field of which (or all) could not be extracted
MissingArgs ==
    {[BaseArgs EXCEPT !.scene_id = NoneT],
     [BaseArgs EXCEPT !.geometry = None],
     [BaseArgs EXCEPT !.bbox = None],
     [BaseArgs EXCEPT !.datetime = None],
     [BaseArgs EXCEPT !.shape = None],
     [BaseArgs EXCEPT !.scene_id = NoneT, !.geometry = None, !.bbox = None,
                      !.datetime = None, !.shape = None]}

\* products that differ in the measurements and the archive format
ImageArgs ==
    {[BaseArgs EXCEPT !.image_paths = ps, !.archive_format = f] :
        ps \in ImagePathLists, f \in Format}

\* products that differ in an optional field
OptionalArgs ==
    {[BaseArgs EXCEPT !.thumbnail_href = NoneT],
     [BaseArgs EXCEPT !.platform = None],
     [BaseArgs EXCEPT !.manifest.stop = None],
     [BaseArgs EXCEPT !.read_href_modifier = "sign"],
     [BaseArgs EXCEPT !.image_paths =
         <<Measurement("iw2", "vv"), Measurement("iw1", "vv")>>]}

Inputs == SceneArgs \cup MissingArgs \cup ImageArgs \cup OptionalArgs

JsonPaths == {"collection.json"}

\* ----------------------------------------------------- the state machine
Init ==
    /\ c = Constants
    /\ calls = <<>>
    /\ collection = NoneT

\* each call constructs one object: the Collection is object 0, the Item of
\* the n-th create_item call is object n
CreateItem(args) ==
    /\ Len(calls) < MaxCalls
    /\ LET r == create_item(args, c, Len(calls) + 1)
       IN /\ calls' = Append(calls, [args |-> args, status |-> r.status,
                                     item |-> r.item])
          /\ c' = r.heap
    /\ UNCHANGED collection

CreateCollection(json_path) ==
    /\ LET r == create_collection(json_path, c, 0)
       IN /\ collection' = Some(r.collection)
          /\ c' = r.heap
    /\ UNCHANGED calls

Next ==
    \/ \E args \in Inputs : CreateItem(args)
    \/ \E json_path \in JsonPaths : CreateCollection(json_path)

Spec == Init /\ [][Next]_vars

\* ------------------------------------------------------------- claims
Ok(i) == calls[i].status = "ok"
ItemOf(i) == Val(calls[i].item)

\* the swath/polarisation image assets of an Item, in order
ImageAssetsOf(item) ==
    SelectSeq(item.assets, LAMBDA e : e.asset.roles = <<"data">>)

C2_ItemId ==
    /\ \A i \in DOMAIN calls :
        Ok(i) =>
            LET s == Val(calls[i].args.scene_id)
                id == ItemOf(i).id
            IN /\ Len(id) = (IF Len(s) >= 5 THEN Len(s) - 5 ELSE 0)
               /\ \A k \in 1..Len(id) : id[k] = s[k]
    /\ \A i, j \in DOMAIN calls :
        (Ok(i) /\ Ok(j)) =>
            LET s == Val(calls[i].args.scene_id)
                t == Val(calls[j].args.scene_id)
            IN (Len(s) = Len(t) /\ \A k \in 1..(Len(s) - 5) : s[k] = t[k])
                   => ItemOf(i).id = ItemOf(j).id

C2_Witness ==
    \E i, j \in DOMAIN calls :
        /\ Ok(i) /\ Ok(j)
        /\ calls[i].args.scene_id # calls[j].args.scene_id
        /\ Len(Val(calls[i].args.scene_id)) = 7
        /\ Len(Val(calls[j].args.scene_id)) = 7
        /\ ItemOf(i).id = ItemOf(j).id
        /\ ItemOf(i).id = <<"S", "1">>

C4_FailsOnMissingField ==
    \A i \in DOMAIN calls :
        LET a == calls[i].args
            missing == \/ IsNone(a.scene_id)
                       \/ a.geometry = None
                       \/ a.bbox = None
                       \/ a.datetime = None
                       \/ a.shape = None
        IN /\ missing => (~Ok(i) /\ IsNone(calls[i].item))
           /\ ~Ok(i) => IsNone(calls[i].item)
           /\ Ok(i) =>
                /\ ItemOf(i).geometry # None
                /\ ItemOf(i).bbox # None
                /\ ItemOf(i).datetime # None
                /\ ItemOf(i).properties.proj_shape # None

C4_Witness ==
    \E i \in DOMAIN calls :
        /\ calls[i].args.geometry = None
        /\ ~IsNone(calls[i].args.scene_id)
        /\ calls[i].args.datetime # None
        /\ calls[i].status = "AttributeError"
        /\ IsNone(calls[i].item)

\* C5: the module-level constants are as they were at import after any
\* sequence of calls, so every recorded result is the one the call gives
\* on a fresh module.
C5_ConstantsUnchanged ==
    /\ c = Constants
    /\ \A i \in DOMAIN calls :
        LET r == create_item(calls[i].args, Constants, i)
        IN calls[i].status = r.status /\ calls[i].item = r.item

C5_Witness ==
    /\ ~IsNone(collection)
    /\ Len(Val(collection).links) = 2
    /\ \E i \in DOMAIN calls : Ok(i) /\ Len(ItemOf(i).links) = 2

\* C6: every image asset of a returned Item has the media type its
\* archive_format decides: GeoTIFF for SAFE, Cloud-Optimized GeoTIFF for
\* COG; so all image assets of one Item have the same media type.
C6_MediaTypeByFormat ==
    \A i \in DOMAIN calls :
        Ok(i) =>
            LET imgs == ImageAssetsOf(ItemOf(i))
                f == calls[i].args.archive_format
            IN /\ \A n \in DOMAIN imgs :
                    /\ f = "SAFE" =>
                         imgs[n].asset.media_type = "image/tiff; application=geotiff"
                    /\ f = "COG" =>
                         imgs[n].asset.media_type =
                             "image/tiff; application=geotiff; profile=cloud-optimized"
               /\ \A n, m \in DOMAIN imgs :
                    imgs[n].asset.media_type = imgs[m].asset.media_type

C6_Witness ==
    \E i, j \in DOMAIN calls :
        /\ Ok(i) /\ Ok(j)
        /\ calls[i].args.archive_format = "COG"
        /\ calls[j].args.archive_format = "SAFE"
        /\ calls[i].args.image_paths = calls[j].args.image_paths
        /\ Len(ImageAssetsOf(ItemOf(i))) = 2

C8_AssetsDeclared ==
    ~IsNone(collection) =>
        \A i \in DOMAIN calls :
            Ok(i) =>
                \A n \in DOMAIN ItemOf(i).assets :
                    LET e == ItemOf(i).assets[n]
                        declared == Val(collection).item_assets
                    IN /\ e.key \in DOMAIN declared
                       /\ e.asset.media_type = declared[e.key].type

====
